---- MODULE Spec2Model ----
(***************************************************************************)
(* SingleStoreDocumentStore (document_store.py): a document table adapter  *)
(* over a pooled SQL connection.  The model holds the adapter's fields,    *)
(* the rows of its table, the pool's checked-out count and, per caller,    *)
(* the position inside the operation it is running.                        *)
(***************************************************************************)
EXTENDS Integers, Sequences, FiniteSets, TLC

VARIABLES
    store,       \* the adapter's fields (self.*) set by __init__
    schema,      \* names of the tables that exist in the database
    ctor,        \* position of __init__: "create_table" (line 48 pending) or "done"
    table,       \* rows of store.table_name, in scan order
    checkedout,  \* connections currently checked out of self.connection_pool
    pc,          \* per caller: "idle", "waiting" (inside pool.connect()) or the running operation
    call,        \* per caller: arguments and loop position of the current (or last) call
    result,      \* per caller: how the last call ended
    snap,        \* per caller: the rows when the current (or last) call obtained its connection
    ser,         \* the mapping last produced by to_dict
    rebuilt      \* outcome of the last from_dict

vars == <<store, schema, ctor, table, checkedout, pc, call, result, snap, ser, rebuilt>>

--------------------------------------------------------------------------
(* Bounds of the model *)

MaxDocs == 3       \* longest document list given to write_documents
MaxIds == 3        \* longest id list given to delete_documents
NumThreads == 2    \* callers of the concurrent specification

--------------------------------------------------------------------------
(* Python values of a Document's metadata and their JSON encoding *)

Ids == {"1", "2", "3"}

PyStr(s) == [t |-> "str", s |-> s, items |-> {}]
PyInt(s) == [t |-> "int", s |-> s, items |-> {}]
PyDict(items) == [t |-> "dict", s |-> "", items |-> items]

PyScalars == {PyStr("x"), PyStr("y"), PyStr("1"), PyInt("1")}

\* A mapping is a set of <<key, value>> pairs with distinct keys.
MetaKX == {<<"k", PyStr("x")>>}
MetaKXJY == {<<"k", PyStr("x")>>, <<"j", PyStr("y")>>}
MetaDot == {<<"a.b", PyStr("x")>>}
MetaNest == {<<"a", PyDict({<<"b", PyStr("x")>>})>>}

Keys(m) == {p[1] : p \in m}
Get(m, k) == (CHOOSE p \in m : p[1] = k)[2]

\* json.dumps of a scalar: a str is quoted, an int is its decimal text.
DumpsScalar(v) == IF v.t = "str" THEN "\"" \o v.s \o "\"" ELSE v.s

\* json.dumps of a value, as the JSON document the database holds: a scalar
\* by its text, an object by its members.
RECURSIVE DumpsValue(_)
DumpsValue(v) ==
    IF v.t = "dict"
    THEN [kind |-> "object", text |-> "",
          members |-> {<<p[1], DumpsValue(p[2])>> : p \in v.items}]
    ELSE [kind |-> "scalar", text |-> DumpsScalar(v), members |-> {}]

Dumps(m) == DumpsValue(PyDict(m))

\* json.loads, the inverse of json.dumps on the values above.
RECURSIVE LoadsValue(_)
LoadsValue(j) ==
    IF j.kind = "object"
    THEN PyDict({<<p[1], LoadsValue(p[2])>> : p \in j.members})
    ELSE CHOOSE v \in PyScalars : DumpsScalar(v) = j.text

Loads(j) == LoadsValue(j).items

Document(id, content, metadata) == [id |-> id, content |-> content, metadata |-> metadata]

\* The documents callers write; id "1" comes with two documents that
\* differ in content and in metadata.
Documents ==
    {Document("1", "A", MetaKX), Document("1", "B", MetaDot),
     Document("2", "B", MetaNest), Document("3", "A", MetaKXJY)}

SeqsUpTo(S, n) == UNION {[1..k -> S] : k \in 0..n}

--------------------------------------------------------------------------
(* The database: the table created by _create_table, and the statements    *)
(* the adapter sends to it.  A statement either takes effect or raises an  *)
(* error carrying a message; every statement commits on its own.           *)

Row(doc) == [id |-> doc.id, content |-> doc.content, metadata |-> Dumps(doc.metadata)]

RowIds(rows) == {rows[n].id : n \in 1..Len(rows)}
RowsOf(rows, id) == SelectSeq(rows, LAMBDA r : r.id = id)

\* Error 1062, raised by the PRIMARY KEY of the id column.
DupMsg(id) == "Duplicate entry '" \o id \o "' for key 'PRIMARY'"
\* Error 1205, a statement that fails for a reason other than a key conflict.
LockMsg == "Lock wait timeout exceeded; try restarting transaction"

Raised(rows, msg) == [ok |-> FALSE, msg |-> msg, rows |-> rows, rowcount |-> 0]
Done(rows, n) == [ok |-> TRUE, msg |-> "", rows |-> rows, rowcount |-> n]

\* The id column declared without PRIMARY KEY: no row is refused.
NoPrimaryKey(rows, id) == FALSE

\* {id_field} VARCHAR(100) PRIMARY KEY: a row whose id is present is refused.
PrimaryKeyConflict(rows, id) == id \in RowIds(rows)

\* INSERT INTO table (id, content, metadata) VALUES (%s, %s, %s)
InsertOutcomes(rows, row) ==
    {Raised(rows, LockMsg)} \cup
    (IF PrimaryKeyConflict(rows, row.id)
     THEN {Raised(rows, DupMsg(row.id))}
     ELSE {Done(Append(rows, row), 1)})

\* REPLACE INTO table (id, content, metadata) VALUES (%s, %s, %s)
ReplaceOutcomes(rows, row) ==
    {Raised(rows, LockMsg),
     Done(Append(SelectSeq(rows, LAMBDA r : r.id # row.id), row),
          1 + Len(RowsOf(rows, row.id)))}

\* DELETE FROM table WHERE id = %s
DeleteOutcomes(rows, id) ==
    {Raised(rows, LockMsg),
     Done(SelectSeq(rows, LAMBDA r : r.id # id), Len(RowsOf(rows, id)))}

\* SELECT COUNT(*) FROM table
CountOutcomes(rows) == {Raised(rows, LockMsg), Done(rows, Len(rows))}

\* The path '$.{key}': the key is pasted into the path unquoted, so a dot in
\* it separates two steps of the path.  (The keys of the model are listed.)
JsonPath(key) == IF key = "a.b" THEN <<"a", "b">> ELSE <<key>>

SqlNull == [kind |-> "null", text |-> "", members |-> {}]

\* JSON_EXTRACT(metadata, path): the value the path leads to, or NULL.
RECURSIVE JsonExtract(_, _)
JsonExtract(j, path) ==
    IF path = <<>> THEN j
    ELSE IF j.kind = "object" /\ \E p \in j.members : p[1] = Head(path)
         THEN JsonExtract(Get(j.members, Head(path)), Tail(path))
         ELSE SqlNull

\* JSON_EXTRACT(metadata, '$.key') = %s, the parameter being json.dumps(value).
WhereClause(row, key, param) ==
    LET j == JsonExtract(row.metadata, JsonPath(key))
    IN j.kind = "scalar" /\ j.text = param

\* SELECT id, content, metadata FROM table [WHERE ... AND ...]
SelectRows(rows, clauses) ==
    SelectSeq(rows, LAMBDA r : \A c \in clauses : WhereClause(r, c[1], c[2]))

\* The check left out: no error is recognised as a duplicate.
HasDuplicateEntryNever(msg) == FALSE

\* The check too wide: every error is taken for a duplicate.
HasDuplicateEntryAlways(msg) == TRUE

\* "Duplicate entry" in str(e)
HasDuplicateEntry(msg) == \E id \in Ids : msg = DupMsg(id)

--------------------------------------------------------------------------
(* Callers *)

Callers == {1}
PoolCallers == 1..NumThreads
Threads == Callers \cup PoolCallers

Policies == {"FAIL", "SKIP", "OVERWRITE"}

Filters(given, items) == [given |-> given, items |-> items]
NoFilters == Filters(FALSE, {})
FilterInputs ==
    {NoFilters, Filters(TRUE, {}),
     Filters(TRUE, {<<"k", PyStr("x")>>}),
     Filters(TRUE, {<<"k", PyStr("1")>>}),
     Filters(TRUE, {<<"k", PyInt("1")>>}),
     Filters(TRUE, {<<"j", PyStr("y")>>}),
     Filters(TRUE, {<<"k", PyStr("x")>>, <<"j", PyStr("y")>>}),
     Filters(TRUE, {<<"a.b", PyStr("x")>>})}

NoCall == [op |-> "none", docs |-> <<>>, policy |-> "FAIL", ids |-> <<>>,
           filters |-> NoFilters, i |-> 0, count |-> 0]
WriteCall(docs, policy) == [NoCall EXCEPT !.op = "write", !.docs = docs, !.policy = policy, !.i = 1]
DeleteCall(ids) == [NoCall EXCEPT !.op = "delete", !.ids = ids, !.i = 1]
CountCall == [NoCall EXCEPT !.op = "count"]
FilterCall(f) == [NoCall EXCEPT !.op = "filter", !.filters = f]

NoResult == [status |-> "none", err |-> "", msg |-> "", value |-> 0, docs |-> <<>>]
Returned(value, docs) == [status |-> "ok", err |-> "", msg |-> "", value |-> value, docs |-> docs]
Raise(err, msg) == [status |-> "error", err |-> err, msg |-> msg, value |-> 0, docs |-> <<>>]

DuplicateDocumentError(id) == Raise("DuplicateDocumentError", "Document with id " \o id \o " already exists.")
MissingDocumentError(id) == Raise("MissingDocumentError", "Document with id '" \o id \o "' not found.")
DatabaseError(msg) == Raise("DatabaseError", msg)
TimeoutError == Raise("TimeoutError", "QueuePool limit reached, connection timed out")

--------------------------------------------------------------------------
(* Construction: __init__, _parse_uri, _create_table *)

\* A dict is a set of <<key, value>> pairs with distinct keys.
Lookup(d, k, default) == IF \E p \in d : p[1] = k THEN Get(d, k) ELSE default
SetItem(d, k, v) == {p \in d : p[1] # k} \cup {<<k, v>>}
Pop(d, k) == {p \in d : p[1] # k}
\* {**a, **b}: the keys of b override those of a.
Merge(a, b) == {p \in a : p[1] \notin Keys(b)} \cup b

PyNone == "<None>"
NonePort == 0          \* urlparse(...).port of a URI without a port
DefaultPort == 3306
DefaultPoolSize == 5
DefaultMaxOverflow == 10
DefaultTimeout == 30

\* urlparse(uri), by its components; given is FALSE for uri=None.
Uri(given, username, password, hostname, port, path) ==
    [given |-> given, username |-> username, password |-> password,
     hostname |-> hostname, port |-> port, path |-> path]
NoUri == Uri(FALSE, PyNone, PyNone, PyNone, NonePort, "")

\* path.strip("/") on the paths of the model
StripSlashes(path) ==
    CASE path = "/test" -> "test"
      [] path = "/a/b/" -> "a/b"
      [] OTHER -> path

parse_uri(kwargs, parsed) ==
    LET k1 == SetItem(kwargs, "host", parsed.hostname)
        k2 == SetItem(k1, "port", IF parsed.port = NonePort THEN DefaultPort ELSE parsed.port)
        k3 == SetItem(k2, "user", parsed.username)
        k4 == SetItem(k3, "password", parsed.password)
    IN IF parsed.path # "" /\ parsed.path # "/"
       THEN SetItem(k4, "database", StripSlashes(parsed.path))
       ELSE k4

Args(uri, table_name, pool_size, max_overflow, kwargs) ==
    [uri |-> uri, table_name |-> table_name, content_field |-> "content",
     metadata_field |-> "metadata", id_field |-> "id", pool_size |-> pool_size,
     max_overflow |-> max_overflow, timeout |-> DefaultTimeout, kwargs |-> kwargs]

\* __init__ up to the creation of the pool
NewStore(args) ==
    [table_name |-> args.table_name, content_field |-> args.content_field,
     metadata_field |-> args.metadata_field, id_field |-> args.id_field,
     pool_size |-> args.pool_size, max_overflow |-> args.max_overflow,
     timeout |-> args.timeout,
     connection_kwargs |-> IF args.uri.given THEN parse_uri(args.kwargs, args.uri)
                           ELSE args.kwargs]

\* No adapter.
NoStore == [table_name |-> PyNone, content_field |-> PyNone, metadata_field |-> PyNone,
            id_field |-> PyNone, pool_size |-> 0, max_overflow |-> 0, timeout |-> 0,
            connection_kwargs |-> {}]

\* CREATE TABLE IF NOT EXISTS {table_name}: an existing table is left alone.
create_table(tables, name) == tables \cup {name}

\* The adapter of the test fixture: uri="mock://localhost:3306/test", table_name="test_documents".
FixtureArgs ==
    Args(Uri(TRUE, PyNone, PyNone, "localhost", DefaultPort, "/test"), "test_documents",
         DefaultPoolSize, DefaultMaxOverflow, {})

\* Adapters with a pool of one connection and at most one overflow connection.
SmallPoolArgs == {Args(NoUri, "documents", 1, overflow, {<<"host", "db">>}) : overflow \in {0, 1}}

\* A pool that hands out connections without limit.
PoolHasRoomAlways == TRUE

\* QueuePool: at most pool_size + max_overflow connections are checked out.
PoolHasRoom == checkedout < store.pool_size + store.max_overflow

--------------------------------------------------------------------------
(* Operations.  pool.connect() either hands out a connection or, with the  *)
(* pool exhausted, blocks the caller; conn.close() in the finally clause   *)
(* gives the connection back on every way out.  call and snap describe the *)
(* call in progress; its arguments are dropped when it ends.               *)

\* conn = self.connection_pool.connect()
Connect(t, c) ==
    /\ ctor = "done"
    /\ pc[t] = "idle"
    /\ call' = [call EXCEPT ![t] = c]
    /\ result' = [result EXCEPT ![t] = NoResult]
    /\ IF PoolHasRoom
       THEN /\ checkedout' = checkedout + 1
            /\ pc' = [pc EXCEPT ![t] = c.op]
            /\ snap' = [snap EXCEPT ![t] = table]
       ELSE /\ pc' = [pc EXCEPT ![t] = "waiting"]
            /\ UNCHANGED <<checkedout, snap>>
    /\ UNCHANGED <<store, schema, ctor, table, ser, rebuilt>>

\* A call that is over: what it was stays, its arguments are dropped.
Ended(c) == [NoCall EXCEPT !.op = c.op, !.policy = c.policy]

\* An error path that skips conn.close(): the connection is never given back.
FinishLeaky(t, r) ==
    /\ pc' = [pc EXCEPT ![t] = "idle"]
    /\ result' = [result EXCEPT ![t] = r]
    /\ call' = [call EXCEPT ![t] = Ended(call[t])]
    /\ snap' = [snap EXCEPT ![t] = <<>>]
    /\ checkedout' = IF r.status = "error" THEN checkedout ELSE checkedout - 1

\* The finally clauses: cur.close(), conn.close(); then the call ends with r.
Finish(t, r) ==
    /\ pc' = [pc EXCEPT ![t] = "idle"]
    /\ result' = [result EXCEPT ![t] = r]
    /\ call' = [call EXCEPT ![t] = Ended(call[t])]
    /\ snap' = [snap EXCEPT ![t] = <<>>]
    /\ checkedout' = checkedout - 1

\* The loop goes on with the next element.
Continue(t, c) ==
    /\ call' = [call EXCEPT ![t] = c]
    /\ UNCHANGED <<pc, result, snap, checkedout>>

(* write_documents *)

WriteDocuments(t, docs, policy) ==
    /\ Len(docs) <= MaxDocs
    /\ Connect(t, WriteCall(docs, policy))

\* raise DuplicateDocumentError(f"Document with id {doc.id} already exists.")
OnDuplicateFail(t, c, doc) ==
    /\ Finish(t, DuplicateDocumentError(doc.id))
    /\ UNCHANGED table

\* The skipped document counted as written.
OnDuplicateSkipCounted(t, c, doc) ==
    /\ Continue(t, [c EXCEPT !.i = c.i + 1, !.count = c.count + 1])
    /\ UNCHANGED table

\* continue
OnDuplicateSkip(t, c, doc) ==
    /\ Continue(t, [c EXCEPT !.i = c.i + 1])
    /\ UNCHANGED table

\* The REPLACE left out: the document is counted, the old row stays.
OnDuplicateOverwriteNoReplace(t, c, doc) ==
    /\ Continue(t, [c EXCEPT !.i = c.i + 1, !.count = c.count + 1])
    /\ UNCHANGED table

\* cur.execute("REPLACE INTO ..."); count += 1
OnDuplicateOverwrite(t, c, doc) ==
    \E rep \in ReplaceOutcomes(table, Row(doc)) :
        IF rep.ok
        THEN /\ table' = rep.rows
             /\ Continue(t, [c EXCEPT !.i = c.i + 1, !.count = c.count + 1])
        ELSE /\ Finish(t, DatabaseError(rep.msg))
             /\ UNCHANGED table

\* The except clause, for the error e raised by the INSERT of doc.
OnInsertError(t, c, doc, e) ==
    IF HasDuplicateEntry(e)
    THEN CASE c.policy = "FAIL" -> OnDuplicateFail(t, c, doc)
           [] c.policy = "SKIP" -> OnDuplicateSkip(t, c, doc)
           [] c.policy = "OVERWRITE" -> OnDuplicateOverwrite(t, c, doc)
    ELSE /\ Finish(t, DatabaseError(e))
         /\ UNCHANGED table

\* One pass of the loop body, for documents[i].
WriteStep(t) ==
    /\ pc[t] = "write"
    /\ call[t].i <= Len(call[t].docs)
    /\ LET c == call[t]
           doc == c.docs[c.i]
       IN \E ins \in InsertOutcomes(table, Row(doc)) :
            IF ins.ok
            THEN /\ table' = ins.rows
                 /\ Continue(t, [c EXCEPT !.i = c.i + 1, !.count = c.count + 1])
            ELSE OnInsertError(t, c, doc, ins.msg)
    /\ UNCHANGED <<store, schema, ctor, ser, rebuilt>>

\* return count
WriteReturn(t) ==
    /\ pc[t] = "write"
    /\ call[t].i > Len(call[t].docs)
    /\ Finish(t, Returned(call[t].count, <<>>))
    /\ UNCHANGED <<store, schema, ctor, table, ser, rebuilt>>

(* delete_documents *)

DeleteDocuments(t, ids) ==
    /\ Len(ids) <= MaxIds
    /\ Connect(t, DeleteCall(ids))

\* The rowcount test left out: a delete that matches no row goes unnoticed.
NoRowDeletedIgnored(del) == FALSE

\* cur.rowcount == 0
NoRowDeleted(del) == del.rowcount = 0

\* One pass of the loop body, for document_ids[i].
DeleteStep(t) ==
    /\ pc[t] = "delete"
    /\ call[t].i <= Len(call[t].ids)
    /\ LET c == call[t]
           doc_id == c.ids[c.i]
       IN \E del \in DeleteOutcomes(table, doc_id) :
            IF ~del.ok
            THEN /\ Finish(t, DatabaseError(del.msg))
                 /\ UNCHANGED table
            ELSE IF NoRowDeleted(del)
            THEN /\ Finish(t, MissingDocumentError(doc_id))
                 /\ table' = del.rows
            ELSE /\ table' = del.rows
                 /\ Continue(t, [c EXCEPT !.i = c.i + 1])
    /\ UNCHANGED <<store, schema, ctor, ser, rebuilt>>

\* The loop is over: the call returns None.
DeleteReturn(t) ==
    /\ pc[t] = "delete"
    /\ call[t].i > Len(call[t].ids)
    /\ Finish(t, Returned(0, <<>>))
    /\ UNCHANGED <<store, schema, ctor, table, ser, rebuilt>>

(* count_documents *)

CountDocuments(t) ==
    /\ t \in Threads
    /\ Connect(t, CountCall)

\* cur.execute("SELECT COUNT(*) ..."); return cur.fetchone()[0]
CountStep(t) ==
    /\ pc[t] = "count"
    /\ \E cnt \in CountOutcomes(table) :
         Finish(t, IF cnt.ok THEN Returned(cnt.rowcount, <<>>) ELSE DatabaseError(cnt.msg))
    /\ UNCHANGED <<store, schema, ctor, table, ser, rebuilt>>

(* filter_documents *)

\* The WHERE clauses and their parameters built from filters.
where_clauses(filters) ==
    IF filters.given /\ filters.items # {}
    THEN {<<p[1], DumpsScalar(p[2])>> : p \in filters.items}
    ELSE {}

\* Document(content=content, id=doc_id, metadata=json.loads(metadata)) for each row
documents(rows) ==
    [n \in 1..Len(rows) |-> Document(rows[n].id, rows[n].content, Loads(rows[n].metadata))]

FilterDocuments(t, filters) ==
    /\ filters \in FilterInputs
    /\ Connect(t, FilterCall(filters))

\* cur.execute(query, params); the rows fetched are decoded and returned.
FilterStep(t) ==
    /\ pc[t] = "filter"
    /\ \E ok \in BOOLEAN :
         Finish(t, IF ok
                   THEN Returned(0, documents(SelectRows(table, where_clauses(call[t].filters))))
                   ELSE DatabaseError(LockMsg))
    /\ UNCHANGED <<store, schema, ctor, table, ser, rebuilt>>

--------------------------------------------------------------------------
(* The single-caller specification *)

NotRebuilt == [status |-> "none", err |-> "", data |-> {}, store |-> NoStore]

InitCallers ==
    /\ pc = [t \in Threads |-> "idle"]
    /\ call = [t \in Threads |-> NoCall]
    /\ result = [t \in Threads |-> NoResult]
    /\ snap = [t \in Threads |-> <<>>]
    /\ checkedout = 0
    /\ table = <<>>
    /\ ser = {}
    /\ rebuilt = NotRebuilt

\* The state after SingleStoreDocumentStore(uri=..., table_name=...) returned.
Init ==
    /\ store = NewStore(FixtureArgs)
    /\ schema = create_table({}, FixtureArgs.table_name)
    /\ ctor = "done"
    /\ InitCallers

Next ==
    \E t \in Callers :
        \/ \E docs \in SeqsUpTo(Documents, MaxDocs), policy \in Policies : WriteDocuments(t, docs, policy)
        \/ WriteStep(t)
        \/ WriteReturn(t)
        \/ \E ids \in SeqsUpTo(Ids, MaxIds) : DeleteDocuments(t, ids)
        \/ DeleteStep(t)
        \/ DeleteReturn(t)
        \/ CountDocuments(t)
        \/ CountStep(t)
        \/ \E f \in FilterInputs : FilterDocuments(t, f)
        \/ FilterStep(t)

Spec == Init /\ [][Next]_vars

--------------------------------------------------------------------------
(* The concurrent specification: several callers share an adapter whose    *)
(* pool holds fewer connections than there are callers.  It starts where   *)
(* __init__ has built the pool and is about to call _create_table.         *)

\* _create_table: a connection is taken, the DDL runs (or fails, and with it
\* the construction), and the connection is given back.
CreateTable ==
    /\ ctor = "create_table"
    /\ PoolHasRoom
    /\ \E ok \in BOOLEAN :
         IF ok
         THEN ctor' = "done" /\ schema' = create_table(schema, store.table_name)
         ELSE ctor' = "failed" /\ UNCHANGED schema
    /\ checkedout' = (checkedout + 1) - 1
    /\ UNCHANGED <<store, table, pc, call, result, snap, ser, rebuilt>>

\* A caller blocked in pool.connect() gets the connection another gave back.
PoolAcquire(t) ==
    /\ pc[t] = "waiting"
    /\ PoolHasRoom
    /\ checkedout' = checkedout + 1
    /\ pc' = [pc EXCEPT ![t] = call[t].op]
    /\ snap' = [snap EXCEPT ![t] = table]
    /\ UNCHANGED <<store, schema, ctor, table, call, result, ser, rebuilt>>

\* The pool stayed exhausted for timeout seconds: pool.connect() raises, before
\* the try block, so no statement runs and there is nothing to give back.
PoolTimeout(t) ==
    /\ pc[t] = "waiting"
    /\ ~PoolHasRoom
    /\ pc' = [pc EXCEPT ![t] = "idle"]
    /\ result' = [result EXCEPT ![t] = TimeoutError]
    /\ call' = [call EXCEPT ![t] = Ended(call[t])]
    /\ UNCHANGED <<store, schema, ctor, table, checkedout, snap, ser, rebuilt>>

\* What the concurrent callers pass.
PoolDocuments == {<<Document("1", "A", MetaKX)>>}
PoolIds == {<<"1">>}

InitPool ==
    /\ store \in {NewStore(args) : args \in SmallPoolArgs}
    /\ schema = {}
    /\ ctor = "create_table"
    /\ InitCallers

NextPool ==
    \/ CreateTable
    \/ \E t \in PoolCallers :
        \/ \E docs \in PoolDocuments, policy \in Policies : WriteDocuments(t, docs, policy)
        \/ WriteStep(t)
        \/ WriteReturn(t)
        \/ \E ids \in PoolIds : DeleteDocuments(t, ids)
        \/ DeleteStep(t)
        \/ DeleteReturn(t)
        \/ CountDocuments(t)
        \/ CountStep(t)
        \/ FilterDocuments(t, NoFilters)
        \/ FilterStep(t)
        \/ PoolAcquire(t)
        \/ PoolTimeout(t)

SpecPool == InitPool /\ [][NextPool]_vars

\* pool.connect() waits for at most timeout seconds: a blocked caller gets a
\* connection or the timeout error, it does not wait for ever.
SpecPoolFair ==
    SpecPool /\ \A t \in PoolCallers : WF_vars(PoolAcquire(t) \/ PoolTimeout(t))

--------------------------------------------------------------------------
(* Serialization: to_dict and from_dict *)

TypeName == "SingleStoreDocumentStore"

\* The parameters __init__ names; every other key of the mapping is a
\* connection parameter (**kwargs).
Named == {"uri", "table_name", "content_field", "metadata_field", "id_field",
          "pool_size", "max_overflow", "timeout"}

to_dict(st) ==
    Merge({<<"type", TypeName>>, <<"table_name", st.table_name>>,
           <<"content_field", st.content_field>>, <<"metadata_field", st.metadata_field>>,
           <<"id_field", st.id_field>>, <<"pool_size", st.pool_size>>,
           <<"max_overflow", st.max_overflow>>, <<"timeout", st.timeout>>},
          st.connection_kwargs)

\* cls(**data): the named parameters take their values from data or their
\* defaults, the other keys are the connection parameters.
InitArgs(data) ==
    [uri |-> NoUri,
     table_name |-> Lookup(data, "table_name", "documents"),
     content_field |-> Lookup(data, "content_field", "content"),
     metadata_field |-> Lookup(data, "metadata_field", "metadata"),
     id_field |-> Lookup(data, "id_field", "id"),
     pool_size |-> Lookup(data, "pool_size", DefaultPoolSize),
     max_overflow |-> Lookup(data, "max_overflow", DefaultMaxOverflow),
     timeout |-> Lookup(data, "timeout", DefaultTimeout),
     kwargs |-> {p \in data : p[1] \notin Named}]

\* from_dict that reads the type without taking it out of the mapping.
from_dict_type_kept(data) ==
    IF Lookup(data, "type", PyNone) # TypeName
    THEN [status |-> "error", err |-> "ValueError", data |-> data, store |-> NoStore]
    ELSE [status |-> "ok", err |-> "", data |-> data, store |-> NewStore(InitArgs(data))]

\* from_dict: data.pop("type", None) is compared with the class name, then cls(**data).
from_dict(data) ==
    IF Lookup(data, "type", PyNone) # TypeName
    THEN [status |-> "error", err |-> "ValueError", data |-> data, store |-> NoStore]
    ELSE [status |-> "ok", err |-> "", data |-> data,
          store |-> NewStore(InitArgs(Pop(data, "type")))]

ToDict ==
    /\ ctor = "done"
    /\ ser' = to_dict(store)
    /\ UNCHANGED <<store, schema, ctor, table, checkedout, pc, call, result, snap, rebuilt>>

\* from_dict on the mapping to_dict produced, as it is or with another type
\* written into it.  The mapping loses its type; the adapter built creates
\* its own pool and its table.
FromDict(otherType) ==
    /\ ser # {}
    /\ LET data == IF otherType THEN SetItem(ser, "type", "InMemoryDocumentStore") ELSE ser
           r == from_dict(data)
       IN /\ rebuilt' = r
          /\ ser' = Pop(data, "type")
          /\ schema' = IF r.status = "ok" THEN create_table(schema, r.store.table_name)
                       ELSE schema
    /\ UNCHANGED <<store, ctor, table, checkedout, pc, call, result, snap>>

\* The adapters serialized: built from a URI or from explicit parameters.
UriInputs ==
    {NoUri} \cup
    {Uri(TRUE, user, password, "localhost", port, path) :
        user \in {"admin", PyNone}, password \in {"secret", PyNone},
        port \in {NonePort, DefaultPort, 3307}, path \in {"", "/", "/test", "/a/b/"}}

ConstructArgs ==
    {Args(uri, table_name, pool_size, DefaultMaxOverflow, kwargs) :
        uri \in UriInputs, table_name \in {"documents", "test_documents"},
        pool_size \in {DefaultPoolSize, 1},
        kwargs \in {{}, {<<"host", "db">>, <<"database", "prod">>, <<"charset", "utf8">>}}}

InitSer ==
    /\ store \in {NewStore(args) : args \in ConstructArgs}
    /\ schema = create_table({}, store.table_name)
    /\ ctor = "done"
    /\ InitCallers

NextSer ==
    \/ ToDict
    \/ \E otherType \in BOOLEAN : FromDict(otherType)

SpecSer == InitSer /\ [][NextSer]_vars

--------------------------------------------------------------------------
(* Properties of the single-caller specification.  A property of the way a *)
(* call ends is stated on the step that ends it, where the call's          *)
(* arguments (call), the rows it started from (snap) and its outcome       *)
(* (result') are all at hand.                                              *)

Rows(docs) == [n \in 1..Len(docs) |-> Row(docs[n])]
Prefix(q, n) == SubSeq(q, 1, n)
Elems(q) == {q[n] : n \in 1..Len(q)}

\* An error of the store that is not a key conflict, passed on as it is.
Passthrough(r) == r = DatabaseError(LockMsg)

\* t is about to run the loop body of write_documents under policy for a
\* document whose id is in the table.
AtDuplicate(t, policy) ==
    /\ pc[t] = "write"
    /\ call[t].policy = policy
    /\ call[t].i <= Len(call[t].docs)
    /\ call[t].docs[call[t].i].id \in RowIds(table)

\* C1: under FAIL, a document whose id is in the table ends the call with
\* DuplicateDocumentError naming that id (or with the store's own error, had
\* the statement failed otherwise); no row changes, the documents before it
\* are in the table after the rows the call started from, and none after it is.
C1_FailRaisesAndKeepsPrefix ==
    [][\A t \in Callers :
         AtDuplicate(t, "FAIL") =>
           LET c == call[t] IN
           /\ pc'[t] = "idle"
           /\ \/ result'[t] = DuplicateDocumentError(c.docs[c.i].id)
              \/ Passthrough(result'[t])
           /\ table' = table
           /\ table' = snap[t] \o Rows(Prefix(c.docs, c.i - 1))]_vars

\* Under FAIL the second of three documents has an id stored before the
\* call; the first has been inserted, the third is new.
C1_Witness ==
    /\ AtDuplicate(1, "FAIL")
    /\ Len(call[1].docs) = 3
    /\ call[1].i = 2
    /\ call[1].docs[2].id \in RowIds(snap[1])
    /\ call[1].docs[1].id \notin RowIds(snap[1])
    /\ call[1].docs[3].id \notin RowIds(table)
    /\ Row(call[1].docs[2]) \notin Elems(table)

\* t is about to run the loop body of delete_documents for an id that
\* matches no row.
AtMissing(t) ==
    /\ pc[t] = "delete"
    /\ call[t].i <= Len(call[t].ids)
    /\ call[t].ids[call[t].i] \notin RowIds(table)

\* The rows of q whose id is not in S.
Without(q, S) == SelectSeq(q, LAMBDA r : r.id \notin S)

\* C2: delete_documents goes through the ids in order; an id that matches no
\* row ends the call with MissingDocumentError naming it (or with the store's
\* own error); the rows of the ids before it are gone, every other row,
\* those of the ids after it included, is still there.
C2_DeleteStopsAtMissing ==
    [][\A t \in Callers :
         /\ pc[t] = "delete" =>
              table = Without(snap[t], Elems(Prefix(call[t].ids, call[t].i - 1)))
         /\ AtMissing(t) =>
              LET c == call[t] IN
              /\ pc'[t] = "idle"
              /\ \/ result'[t] = MissingDocumentError(c.ids[c.i])
                 \/ Passthrough(result'[t])
              /\ table' = table]_vars

\* The second of three ids matches no row; the first was stored and is
\* deleted, the third is stored and stays.
C2_Witness ==
    /\ AtMissing(1)
    /\ Len(call[1].ids) = 3
    /\ call[1].i = 2
    /\ call[1].ids[1] \in RowIds(snap[1])
    /\ call[1].ids[1] \notin RowIds(table)
    /\ call[1].ids[3] \in RowIds(table)
    /\ call[1].ids[3] # call[1].ids[2]

\* The same id twice in one list: the second occurrence matches no row.
C2_WitnessTwice ==
    /\ AtMissing(1)
    /\ call[1].i = 2
    /\ call[1].ids[1] = call[1].ids[2]
    /\ call[1].ids[1] \in RowIds(snap[1])

\* t is about to return from write_documents called under policy.
AtWriteReturn(t, policy) ==
    /\ pc[t] = "write"
    /\ call[t].policy = policy
    /\ call[t].i > Len(call[t].docs)

\* The loop of t goes on with the next document, n more counted.
GoesOn(t, n) ==
    /\ pc'[t] = "write"
    /\ result'[t] = NoResult
    /\ call'[t] = [call[t] EXCEPT !.i = @ + 1, !.count = @ + n]

\* C3: under SKIP, a document whose id is in the table changes no row, is
\* not counted and raises nothing, the loop going on with the next document
\* (unless the store fails otherwise); the count returned is the number of
\* rows the call added.
C3_SkipLeavesRowAndCount ==
    [][\A t \in Callers :
         /\ AtDuplicate(t, "SKIP") =>
              /\ table' = table
              /\ GoesOn(t, 0) \/ (pc'[t] = "idle" /\ Passthrough(result'[t]))
         /\ AtWriteReturn(t, "SKIP") =>
              /\ result'[t] = Returned(Len(table) - Len(snap[t]), <<>>)
              /\ Prefix(table, Len(snap[t])) = snap[t]
              /\ Elems(table) \subseteq Elems(snap[t]) \cup Elems(Rows(call[t].docs))
              /\ table' = table]_vars

\* Under SKIP the second of three documents has an id stored before the
\* call, with another content; the first has been inserted and counted.
C3_Witness ==
    /\ AtDuplicate(1, "SKIP")
    /\ Len(call[1].docs) = 3
    /\ call[1].i = 2
    /\ call[1].count = 1
    /\ call[1].docs[2].id \in RowIds(snap[1])
    /\ Row(call[1].docs[2]) \notin Elems(table)
    /\ call[1].docs[3].id \notin RowIds(table)

\* The last document of docs with the given id.
LastOccurrence(docs, id) ==
    docs[CHOOSE n \in 1..Len(docs) :
           /\ docs[n].id = id
           /\ \A m \in (n + 1)..Len(docs) : docs[m].id # id]

\* C4: under OVERWRITE, a document whose id is in the table replaces that
\* row by its own content and metadata, the id keeping one row, and is
\* counted, the loop going on (unless the store fails otherwise); when the
\* call returns, every id of the input has the row of its last occurrence
\* and every document was counted.
C4_OverwriteReplacesRow ==
    [][\A t \in Callers :
         /\ AtDuplicate(t, "OVERWRITE") =>
              LET doc == call[t].docs[call[t].i] IN
              \/ /\ GoesOn(t, 1)
                 /\ RowsOf(table', doc.id) = <<Row(doc)>>
                 /\ Without(table', {doc.id}) = Without(table, {doc.id})
              \/ /\ pc'[t] = "idle"
                 /\ Passthrough(result'[t])
                 /\ table' = table
         /\ AtWriteReturn(t, "OVERWRITE") =>
              /\ result'[t] = Returned(Len(call[t].docs), <<>>)
              /\ \A d \in Elems(call[t].docs) :
                    RowsOf(table', d.id) = <<Row(LastOccurrence(call[t].docs, d.id))>>]_vars

\* Under OVERWRITE the second of two documents has the id of a row stored
\* before the call with another content and metadata.
C4_Witness ==
    /\ AtDuplicate(1, "OVERWRITE")
    /\ call[1].i = 2
    /\ call[1].count = 1
    /\ call[1].docs[2].id \in RowIds(snap[1])
    /\ Row(call[1].docs[2]) \notin Elems(table)

\* The ids of docs are pairwise distinct and none is in rows.
FreshIds(docs, rows) ==
    /\ \A m, n \in 1..Len(docs) : m # n => docs[m].id # docs[n].id
    /\ \A n \in 1..Len(docs) : docs[n].id \notin RowIds(rows)

\* C5: no id ever has more than one row; count_documents returns the number
\* of distinct ids stored; and write_documents of documents with pairwise
\* distinct ids, none stored, never raises DuplicateDocumentError and
\* returns their number, the table then holding that many rows more, which
\* is what count_documents reports.
C5_CountsDistinctIds ==
    /\ [](Len(table) = Cardinality(RowIds(table)))
    /\ [][\A t \in Callers :
            /\ (pc[t] = "count" /\ result'[t].status = "ok") =>
                  result'[t].value = Cardinality(RowIds(table))
            /\ (pc[t] = "write" /\ FreshIds(call[t].docs, snap[t])) =>
                  /\ result'[t].err # "DuplicateDocumentError"
                  /\ pc'[t] = "idle" /\ result'[t].status = "ok" =>
                        /\ result'[t].value = Len(call[t].docs)
                        /\ Len(table') = Len(snap[t]) + Len(call[t].docs)
                        /\ \A cnt \in CountOutcomes(table') :
                              cnt.ok => cnt.rowcount = Len(snap[t]) + result'[t].value]_vars

\* write_documents is about to return after two documents with distinct
\* ids, none stored before, into a table that held one row.
C5_Witness ==
    /\ pc[1] = "write"
    /\ call[1].i > Len(call[1].docs)
    /\ Len(call[1].docs) = 2
    /\ FreshIds(call[1].docs, snap[1])
    /\ Len(snap[1]) = 1
    /\ Len(table) = 3

\* The documents stored, as filter_documents decodes them.
Stored == Elems(documents(table))

\* The stored documents whose metadata has every key of the filter at its
\* top level with an equal value; all of them for no or an empty filter.
Matching(filters) ==
    IF filters.given /\ filters.items # {}
    THEN {d \in Stored : \A p \in filters.items : p \in d.metadata}
    ELSE Stored

\* C6: filter_documents returns exactly the stored documents whose metadata
\* has, for every key of the filter, a top-level key with an equal value
\* (all stored documents for no or an empty filter), and changes no row.
C6_FilterReturnsMatching ==
    [][\A t \in Callers :
         (pc[t] = "filter" /\ result'[t].status = "ok") =>
            /\ Elems(result'[t].docs) = Matching(call[t].filters)
            /\ table' = table]_vars

\* The same for filters whose keys hold no dot.
C6_DotFreeKeys ==
    [][\A t \in Callers :
         (/\ pc[t] = "filter"
          /\ result'[t].status = "ok"
          /\ \A p \in call[t].filters.items : Len(JsonPath(p[1])) = 1) =>
            /\ Elems(result'[t].docs) = Matching(call[t].filters)
            /\ Len(result'[t].docs) = Cardinality(Matching(call[t].filters))
            /\ table' = table]_vars

\* t is about to run the loop body of write_documents.
AtDocument(t) ==
    /\ pc[t] = "write"
    /\ call[t].i <= Len(call[t].docs)

\* C9: an INSERT that fails with an error other than an id conflict ends
\* the call at once with that error, under every policy, no row changing,
\* so that the rows written before stay and no later document is tried; the
\* loop goes past a document without writing it only under SKIP, for an id
\* that is in the table.
C9_OtherErrorsPropagate ==
    [][\A t \in Callers :
         AtDocument(t) =>
           LET doc == call[t].docs[call[t].i] IN
           /\ doc.id \notin RowIds(table) =>
                \/ GoesOn(t, 1) /\ table' = Append(table, Row(doc))
                \/ pc'[t] = "idle" /\ Passthrough(result'[t]) /\ table' = table
           /\ result'[t].err = "DatabaseError" =>
                /\ pc'[t] = "idle"
                /\ Passthrough(result'[t])
                /\ table' = table
           /\ (pc'[t] = "write" /\ Row(doc) \notin Elems(table')) =>
                call[t].policy = "SKIP" /\ doc.id \in RowIds(table)]_vars

\* A write_documents call under SKIP has ended with the store's error, the
\* rows written before it staying in the table.
C9_Witness ==
    /\ pc[1] = "idle"
    /\ call[1].op = "write"
    /\ call[1].policy = "SKIP"
    /\ Passthrough(result[1])
    /\ Len(table) = 2

--------------------------------------------------------------------------
(* Properties of the concurrent specification *)

\* The callers that are inside an operation, past pool.connect().
Running == {t \in Threads : pc[t] \notin {"idle", "waiting"}}

PoolLimit == store.pool_size + store.max_overflow

\* C7: every operation holds one connection from pool.connect() to the end
\* of the call, however it ends, and _create_table holds none once it is
\* over: the connections checked out are those of the calls in progress,
\* and none is checked out when no call is.
C7_ConnectionsReleased ==
    /\ checkedout = Cardinality(Running)
    /\ Running = {} => checkedout = 0

\* No call is in progress; the last calls ended with DuplicateDocumentError
\* and with MissingDocumentError.
C7_Witness ==
    /\ ctor = "done"
    /\ Running = {}
    /\ \A t \in PoolCallers : pc[t] = "idle"
    /\ result[1] = DuplicateDocumentError("1")
    /\ result[2] = MissingDocumentError("1")

\* C8: the connections checked out never exceed pool_size + max_overflow; a
\* caller blocks only when the pool is exhausted, and then either gets a
\* connection given back by another caller or fails with the pool's timeout
\* error, which it does without a statement run or a row changed; it does
\* not stay blocked for ever.
C8_PoolBound ==
    /\ [](checkedout <= PoolLimit)
    /\ [][\A t \in PoolCallers :
            /\ (pc[t] = "idle" /\ pc'[t] = "waiting") => checkedout = PoolLimit
            /\ pc[t] = "waiting" =>
                 \/ pc'[t] = "waiting"
                 \/ /\ pc'[t] = call[t].op
                    /\ checkedout < PoolLimit
                    /\ checkedout' = checkedout + 1
                    /\ table' = table
                 \/ /\ pc'[t] = "idle"
                    /\ result'[t] = TimeoutError
                    /\ checkedout' = checkedout
                    /\ table' = table]_vars
    /\ \A t \in PoolCallers : (pc[t] = "waiting") ~> (pc[t] # "waiting")

\* One caller holds the only connection inside write_documents; the other
\* has failed with the pool's timeout error.
C8_Witness ==
    /\ checkedout = PoolLimit
    /\ pc[1] = "write"
    /\ pc[2] = "idle"
    /\ result[2] = TimeoutError
    /\ call[2].op = "delete"

--------------------------------------------------------------------------
(* Properties of serialization *)

\* C10: from_dict of the mapping to_dict gives builds an adapter with the
\* same table name, column names, pool parameters and connection
\* parameters, whether the adapter was built from a URI or not; from_dict of
\* a mapping whose type is not the adapter's name fails with the
\* configuration error and builds nothing.
C10_RoundTrip ==
    /\ rebuilt.data = to_dict(store) =>
          /\ rebuilt.status = "ok"
          /\ rebuilt.store = store
    /\ (rebuilt.status # "none" /\ Lookup(rebuilt.data, "type", PyNone) # TypeName) =>
          /\ rebuilt.status = "error"
          /\ rebuilt.err = "ValueError"
          /\ rebuilt.store = NoStore
    /\ rebuilt.status = "ok" => Lookup(rebuilt.data, "type", PyNone) = TypeName

\* An adapter built from a URI with a path and no port, over explicit
\* connection parameters, has been rebuilt from its mapping.
C10_Witness ==
    /\ rebuilt.status = "ok"
    /\ rebuilt.data = to_dict(store)
    /\ Lookup(store.connection_kwargs, "database", PyNone) = "a/b"
    /\ Lookup(store.connection_kwargs, "port", NonePort) = DefaultPort
    /\ Lookup(store.connection_kwargs, "charset", PyNone) = "utf8"
    /\ store.pool_size = 1

====
